---- MODULE Spec2Model ----
(***************************************************************************)
(* Webhook-Postgres-Connector-Spine-v1: the ingest endpoint (app/main.py)  *)
(* and the retry worker (app/worker.py) over the three tables of           *)
(* app/models.py (events, processing_state, audit_log).                    *)
(*                                                                         *)
(* Every db.commit() of the source is one step of the model.  The store    *)
(* is PostgreSQL at READ COMMITTED: a statement sees what is committed     *)
(* when it runs, a unique index rejects the second insert of a key, and    *)
(* SELECT ... FOR UPDATE holds the row until the commit that follows it.   *)
(***************************************************************************)
EXTENDS Integers, Sequences, FiniteSets, Bags

\* ---------------------------------------------------------------- bounds
NumRequests == 2
NumWorkers == 2

Requests == 1..NumRequests

\* the attempt numbers calculate_backoff_delay is tried on
MaxAttemptArg == 8
Workers == 1..NumWorkers

\* a JSON value of a payload: a number, or an object written as the sequence of
\* its <<key, value>> items in insertion order
Num(n) == [kind |-> "num", num |-> n, items |-> << >>]
Dict(items) == [kind |-> "dict", num |-> 0, items |-> items]

\* the event ids and payloads the webhook sender draws from.  A payload is
\* written by its place in PayloadTable, which holds the item sequence of its
\* top-level object: the second payload is the first with the keys of both
\* levels in another order, the third differs from the first in a value
EventIds == {"e1", "e2"}
PayloadTable ==
    << << <<1, Num(1)>>, <<2, Dict(<< <<3, Num(2)>>, <<4, Num(3)>> >>)>> >>,
       << <<2, Dict(<< <<4, Num(3)>>, <<3, Num(2)>> >>)>>, <<1, Num(1)>> >>,
       << <<1, Num(1)>>, <<2, Dict(<< <<3, Num(2)>>, <<4, Num(4)>> >>)>> >> >>
Payloads == DOMAIN PayloadTable

\* ---------------------------------------------------------------- settings
max_retry_attempts == 5
initial_retry_delay == 1
max_retry_delay == 60

\* a nullable column holds NULL or <<value>>; of the two timestamp columns of
\* processing_state the model keeps whether they are set
NULL == << >>
TIMESTAMP == << "utcnow" >>

VARIABLES
    events,             \* table events: sequence of rows, id = index
    processing_state,   \* table processing_state: sequence of rows, id = index
    audit_log,          \* table audit_log: the bag of its rows (id left out)
    now,                \* the clock, in seconds
    req,                \* the ingest requests (receive_webhook calls)
    wk,                 \* the worker processes (worker_loop / process_event)
    overlap             \* event ids that had two ingests in flight at once

vars == <<events, processing_state, audit_log, now, req, wk, overlap>>

\* ---------------------------------------------------------------- helpers
RECURSIVE Pow2(_)
Pow2(n) == IF n <= 0 THEN 1 ELSE 2 * Pow2(n - 1)

Min(a, b) == IF a <= b THEN a ELSE b

\* the ids of the rows of a table that carry event_id e
RowsOf(tbl, e) == { i \in 1..Len(tbl) : tbl[i].event_id = e }

CountRows(tbl, e) == Cardinality(RowsOf(tbl, e))

\* .first() of a filter on event_id: NULL or <<the first row, as loaded>>
First(tbl, e) ==
    IF RowsOf(tbl, e) = {} THEN NULL
    ELSE LET i == CHOOSE i \in RowsOf(tbl, e) : \A j \in RowsOf(tbl, e) : i <= j
         IN << [id |-> i, payload |-> tbl[i].payload,
                payload_hash |-> tbl[i].payload_hash] >>

\* create_audit_log: one row added and committed; n is the attempt number the
\* details text carries (0 when it carries none)
AuditRow(e, action, success, n) ==
    [event_id |-> e, action |-> action, success |-> success, n |-> n,
     timestamp |-> now]

create_audit_log(e, action, success, n) ==
    audit_log' = audit_log (+) SetToBag({AuditRow(e, action, success, n)})

\* the audit rows of event e with the given action, and how many there are
AuditOf(e, action) ==
    { a \in BagToSet(audit_log) : a.event_id = e /\ a.action = action }

RECURSIVE SumCopies(_)
SumCopies(rows) ==
    IF rows = {} THEN 0
    ELSE LET a == CHOOSE x \in rows : TRUE
         IN CopiesIn(a, audit_log) + SumCopies(rows \ {a})

CountAudit(e, action) == SumCopies(AuditOf(e, action))

\* ---------------------------------------------------------------- Hasher
\* json.dumps(payload, sort_keys=True): the items of every object in key
\* order, the objects among the values included
RECURSIVE InsertSorted(_, _)
InsertSorted(item, s) ==
    IF s = << >> THEN << item >>
    ELSE IF item[1] <= Head(s)[1] THEN << item >> \o s
    ELSE << Head(s) >> \o InsertSorted(item, Tail(s))

RECURSIVE SortKeys_shallow(_)
SortKeys_shallow(p) ==
    IF p = << >> THEN << >>
    ELSE InsertSorted(Head(p), SortKeys_shallow(Tail(p)))

RECURSIVE SortKeys(_)
SortKeys(p) ==
    IF p = << >> THEN << >>
    ELSE LET k == Head(p)[1]
             v == Head(p)[2]
             c == IF v.kind = "dict" THEN Dict(SortKeys(v.items)) ELSE v
         IN InsertSorted(<<k, c>>, SortKeys(Tail(p)))

\* the text json.dumps writes, as its sequence of tokens: each key, then its
\* number or its object between braces
OpenBrace == -1
CloseBrace == -2

RECURSIVE Dumps(_)
Dumps(items) ==
    IF items = << >> THEN << >>
    ELSE LET k == Head(items)[1]
             v == Head(items)[2]
         IN << k >>
            \o (IF v.kind = "dict"
                THEN << OpenBrace >> \o Dumps(v.items) \o << CloseBrace >>
                ELSE << v.num >>)
            \o Dumps(Tail(items))

\* sha256 of the canonical text, taken as injective on the texts
compute_payload_hash(p) == Dumps(SortKeys(PayloadTable[p]))

\* ---------------------------------------------------------------- ingest
IdleReq == [pc |-> "idle", event_id |-> "", payload |-> 0,
            payload_hash |-> << >>, existing |-> NULL, response |-> ""]

InFlightReq(r) == req[r].pc \notin {"idle", "done"}

\* the unique index on events.event_id (and processing_state.event_id)
UniqueViolation_off(tbl, e) == FALSE

UniqueViolation(tbl, e) == RowsOf(tbl, e) # {}

\* existing_event.payload_hash != payload_hash
HashDiffers_inverted(stored, h) == stored = h

HashDiffers_never(stored, h) == FALSE

HashDiffers(stored, h) == stored # h

\* lines 92-99: audit event_received, then the hash of the payload (the
\* requests are numbered in the order they arrive)
Receive(r, e, p) ==
    /\ req[r].pc = "idle"
    /\ \A q \in Requests : q < r => req[q].pc # "idle"
    /\ create_audit_log(e, "event_received", "pending", 0)
    /\ req' = [req EXCEPT ![r] = [IdleReq EXCEPT !.pc = "received",
                                                 !.event_id = e,
                                                 !.payload = p,
                                                 !.payload_hash = compute_payload_hash(p)]]
    /\ overlap' = IF \E q \in Requests : InFlightReq(q) /\ req[q].event_id = e
                  THEN overlap \cup {e} ELSE overlap
    /\ UNCHANGED <<events, processing_state, now, wk>>

\* line 103: the existence check
Lookup(r) ==
    /\ req[r].pc = "received"
    /\ req' = [req EXCEPT ![r].pc = "checked",
                          ![r].existing = First(events, req[r].event_id)]
    /\ UNCHANGED <<events, processing_state, audit_log, now, wk, overlap>>

\* lines 105-116: the stored hash differs
Conflict(r) ==
    /\ req[r].pc = "checked"
    /\ req[r].existing # NULL
    /\ HashDiffers(req[r].existing[1].payload_hash, req[r].payload_hash)
    /\ create_audit_log(req[r].event_id, "conflict_detected", "failure", 0)
    /\ req' = [req EXCEPT ![r].pc = "done", ![r].response = "conflict"]
    /\ UNCHANGED <<events, processing_state, now, wk, overlap>>

\* lines 117-125: the stored hash is the same
Deduped(r) ==
    /\ req[r].pc = "checked"
    /\ req[r].existing # NULL
    /\ ~HashDiffers(req[r].existing[1].payload_hash, req[r].payload_hash)
    /\ create_audit_log(req[r].event_id, "event_deduped", "success", 0)
    /\ req' = [req EXCEPT ![r].pc = "done", ![r].response = "deduplicated"]
    /\ UNCHANGED <<events, processing_state, now, wk, overlap>>

\* ProcessingState(event_id=event_id, status="pending", attempt_count=0)
NewProcessingState(e) ==
    [event_id |-> e, status |-> "pending", attempt_count |-> 0,
     last_attempt_at |-> NULL, completed_at |-> NULL, error_message |-> NULL]

\* the Event committed without its ProcessingState
InsertCommit_event_only(r) ==
    /\ req[r].pc = "checked"
    /\ req[r].existing = NULL
    /\ ~UniqueViolation(events, req[r].event_id)
    /\ events' = Append(events, [event_id |-> req[r].event_id,
                                 payload |-> req[r].payload,
                                 payload_hash |-> req[r].payload_hash])
    /\ req' = [req EXCEPT ![r].pc = "inserted"]
    /\ UNCHANGED <<processing_state, audit_log, now, wk, overlap>>

\* lines 127-145: Event and ProcessingState added and committed together
InsertCommit(r) ==
    /\ req[r].pc = "checked"
    /\ req[r].existing = NULL
    /\ ~UniqueViolation(events, req[r].event_id)
    /\ events' = Append(events, [event_id |-> req[r].event_id,
                                 payload |-> req[r].payload,
                                 payload_hash |-> req[r].payload_hash])
    /\ processing_state' = Append(processing_state,
                                  NewProcessingState(req[r].event_id))
    /\ req' = [req EXCEPT ![r].pc = "inserted"]
    /\ UNCHANGED <<audit_log, now, wk, overlap>>

\* tests/test_integration.py, lines 164-193: once the webhook is answered and
\* stored, a second ProcessingState row for the event is added and committed
\* on its own; the unique index on processing_state.event_id raises
\* IntegrityError and the insert is rolled back
DuplicateStateInsert(e) ==
    /\ \A r \in Requests : ~InFlightReq(r)
    /\ RowsOf(processing_state, e) # {}
    /\ processing_state' =
            IF UniqueViolation(processing_state, e) THEN processing_state
            ELSE Append(processing_state, NewProcessingState(e))
    /\ UNCHANGED <<events, audit_log, now, req, wk, overlap>>

\* lines 145, 161-162: the commit raises IntegrityError and is rolled back
InsertIntegrityError(r) ==
    /\ req[r].pc = "checked"
    /\ req[r].existing = NULL
    /\ UniqueViolation(events, req[r].event_id)
    /\ req' = [req EXCEPT ![r].pc = "integrity_error"]
    /\ UNCHANGED <<events, processing_state, audit_log, now, wk, overlap>>

\* lines 147-159
Accepted(r) ==
    /\ req[r].pc = "inserted"
    /\ create_audit_log(req[r].event_id, "event_inserted", "success", 0)
    /\ req' = [req EXCEPT ![r].pc = "done", ![r].response = "accepted"]
    /\ UNCHANGED <<events, processing_state, now, wk, overlap>>

\* lines 163-170: the loser of the race answers without reading the stored row
RaceDeduped(r) ==
    /\ req[r].pc = "integrity_error"
    /\ create_audit_log(req[r].event_id, "event_deduped", "success", 0)
    /\ req' = [req EXCEPT ![r].pc = "done", ![r].response = "deduplicated"]
    /\ UNCHANGED <<events, processing_state, now, wk, overlap>>

IdleWorker == [pc |-> "idle", event_id |-> "", row |-> 0, attempt_num |-> 0, wake |-> 0]

InitIngest ==
    /\ events = << >>
    /\ processing_state = << >>
    /\ audit_log = EmptyBag
    /\ now = 0
    /\ req = [r \in Requests |-> IdleReq]
    /\ wk = [w \in Workers |-> IdleWorker]
    /\ overlap = {}

NextIngest ==
    \/ \E r \in Requests, e \in EventIds, p \in Payloads : Receive(r, e, p)
    \/ \E r \in Requests : Lookup(r)
    \/ \E r \in Requests : Conflict(r)
    \/ \E r \in Requests : Deduped(r)
    \/ \E r \in Requests : InsertCommit(r)
    \/ \E r \in Requests : InsertIntegrityError(r)
    \/ \E r \in Requests : Accepted(r)
    \/ \E r \in Requests : RaceDeduped(r)
    \/ \E e \in EventIds : DuplicateStateInsert(e)

SpecIngest == InitIngest /\ [][NextIngest]_vars

\* lines 171-175: a statement of the try block raises an error of the store
\* other than IntegrityError: the query of line 103, the audit of a decision,
\* the commit of line 145 (nothing is stored), or the audit of line 148 (the
\* commit of line 145 stands).  The rollback undoes what is not committed, the
\* failure is audited if the store takes it, and the answer is HTTP 500
StoreError(r) ==
    /\ req[r].pc \in {"received", "checked", "inserted"}
    /\ \E logged \in BOOLEAN :
        IF logged
        THEN create_audit_log(req[r].event_id, "event_received", "failure", 0)
        ELSE audit_log' = audit_log
    /\ req' = [req EXCEPT ![r].pc = "done", ![r].response = "error"]
    /\ UNCHANGED <<events, processing_state, now, wk, overlap>>

NextIngestError ==
    \/ NextIngest
    \/ \E r \in Requests : StoreError(r)

SpecIngestError == InitIngest /\ [][NextIngestError]_vars

\* ---------------------------------------------------------------- worker
\* calculate_backoff_delay
calculate_backoff_delay_linear(attempt) ==
    Min(initial_retry_delay * attempt, max_retry_delay)

calculate_backoff_delay(attempt) ==
    Min(initial_retry_delay * Pow2(attempt - 1), max_retry_delay)

\* ProcessingState.status.in_(['pending', 'failed'])
Eligible_none(status) == FALSE

Eligible_all(status) == TRUE

Eligible(status) == status \in {"pending", "failed"}

\* processing_state.attempt_count >= settings.max_retry_attempts
MaxAttemptsExceeded_off(attempt_count) == FALSE

MaxAttemptsExceeded(attempt_count) == attempt_count >= max_retry_attempts

\* processing_state.attempt_count += 1
IncrementAttempt_off(attempt_count) == attempt_count

IncrementAttempt(attempt_count) == attempt_count + 1

\* the rows the locking query of process_event returns for event e
LockForAttempt(e) ==
    { i \in RowsOf(processing_state, e) : Eligible(processing_state[i].status) }

\* worker_loop, lines 185-194: the poll for pending rows; the task of a row
\* found is started (the model holds one event, so one task per worker)
Poll(w) ==
    /\ wk[w].pc = "idle"
    /\ \E i \in 1..Len(processing_state) :
        /\ processing_state[i].status = "pending"
        /\ wk' = [wk EXCEPT ![w] = [IdleWorker EXCEPT
                                        !.pc = "gate",
                                        !.event_id = processing_state[i].event_id]]
    /\ UNCHANGED <<events, processing_state, audit_log, now, req, overlap>>

\* lines 90-97: no row in 'pending' or 'failed': return
GateNone(w) ==
    /\ wk[w].pc = "gate"
    /\ LockForAttempt(wk[w].event_id) = {}
    /\ wk' = [wk EXCEPT ![w] = IdleWorker]
    /\ UNCHANGED <<events, processing_state, audit_log, now, req, overlap>>

\* lines 99-104: the row is locked and its attempts are used up
GateAbandon(w) ==
    /\ wk[w].pc = "gate"
    /\ \E i \in LockForAttempt(wk[w].event_id) :
        /\ \A j \in LockForAttempt(wk[w].event_id) : i <= j
        /\ MaxAttemptsExceeded(processing_state[i].attempt_count)
        /\ processing_state' = [processing_state EXCEPT
                ![i].status = "failed",
                ![i].error_message = << "Max retry attempts exceeded" >>]
        /\ wk' = [wk EXCEPT ![w].pc = "abandoned", ![w].row = i]
    /\ UNCHANGED <<events, audit_log, now, req, overlap>>

\* lines 109-113: the row is locked, moved to 'processing' and committed
GateClaim(w) ==
    /\ wk[w].pc = "gate"
    /\ \E i \in LockForAttempt(wk[w].event_id) :
        /\ \A j \in LockForAttempt(wk[w].event_id) : i <= j
        /\ ~MaxAttemptsExceeded(processing_state[i].attempt_count)
        /\ processing_state' = [processing_state EXCEPT
                ![i].status = "processing",
                ![i].attempt_count = IncrementAttempt(@),
                ![i].last_attempt_at = TIMESTAMP]
        /\ wk' = [wk EXCEPT ![w].pc = "claimed", ![w].row = i]
    /\ UNCHANGED <<events, audit_log, now, req, overlap>>

\* lines 105-107
AuditAbandoned(w) ==
    /\ wk[w].pc = "abandoned"
    /\ create_audit_log(wk[w].event_id, "processing_abandoned", "failure", 0)
    /\ wk' = [wk EXCEPT ![w] = IdleWorker]
    /\ UNCHANGED <<events, processing_state, now, req, overlap>>

\* lines 115-118: the commit of line 113 released the row and expired the
\* object (the Session default, as the sessionmaker of tests/test_integration.py
\* line 18), so attempt_count is read again from the row; then the audit row
StartAttempt(w) ==
    /\ wk[w].pc = "claimed"
    /\ LET n == processing_state[wk[w].row].attempt_count IN
        /\ create_audit_log(wk[w].event_id, "processing_attempt_started", "pending", n)
        /\ wk' = [wk EXCEPT ![w].pc = "call", ![w].attempt_num = n]
    /\ UNCHANGED <<events, processing_state, now, req, overlap>>

\* lines 121-128: the downstream answers 200; the row is written by its id
DeliverOk(w) ==
    /\ wk[w].pc = "call"
    /\ processing_state' = [processing_state EXCEPT
            ![wk[w].row].status = "completed",
            ![wk[w].row].completed_at = TIMESTAMP,
            ![wk[w].row].error_message = NULL]
    /\ wk' = [wk EXCEPT ![w].pc = "succeeded"]
    /\ UNCHANGED <<events, audit_log, now, req, overlap>>

\* lines 121, 133-137: the downstream fails; the row is written by its id
DeliverFail(w) ==
    /\ wk[w].pc = "call"
    /\ processing_state' = [processing_state EXCEPT
            ![wk[w].row].status = "failed",
            ![wk[w].row].error_message = << "Third-party API call failed" >>]
    /\ wk' = [wk EXCEPT ![w].pc = "failed"]
    /\ UNCHANGED <<events, audit_log, now, req, overlap>>

\* lines 130-132
AuditSucceeded(w) ==
    /\ wk[w].pc = "succeeded"
    /\ create_audit_log(wk[w].event_id, "processing_succeeded", "success",
                        wk[w].attempt_num)
    /\ wk' = [wk EXCEPT ![w] = IdleWorker]
    /\ UNCHANGED <<events, processing_state, now, req, overlap>>

\* lines 139-152: the failure and the retry are audited, the sleep begins
AuditFailedRetry(w) ==
    /\ wk[w].pc = "failed"
    /\ wk[w].attempt_num < max_retry_attempts
    /\ audit_log' = audit_log
            (+) SetToBag({AuditRow(wk[w].event_id, "processing_attempt_failed",
                                   "failure", wk[w].attempt_num)})
            (+) SetToBag({AuditRow(wk[w].event_id, "retry_scheduled",
                                   "pending", wk[w].attempt_num + 1)})
    /\ wk' = [wk EXCEPT ![w].pc = "sleeping",
                        ![w].wake = now + calculate_backoff_delay(wk[w].attempt_num)]
    /\ UNCHANGED <<events, processing_state, now, req, overlap>>

\* lines 139-141, 161-164
AuditFailedPermanently(w) ==
    /\ wk[w].pc = "failed"
    /\ ~(wk[w].attempt_num < max_retry_attempts)
    /\ audit_log' = audit_log
            (+) SetToBag({AuditRow(wk[w].event_id, "processing_attempt_failed",
                                   "failure", wk[w].attempt_num)})
            (+) SetToBag({AuditRow(wk[w].event_id, "processing_failed_permanently",
                                   "failure", wk[w].attempt_num)})
    /\ wk' = [wk EXCEPT ![w] = IdleWorker]
    /\ UNCHANGED <<events, processing_state, now, req, overlap>>

\* lines 154-160: after the sleep the row is refreshed, set to 'pending'
\* whatever it held, and process_event is entered again (a refresh that
\* already reads 'pending' writes nothing, which leaves the same row)
EndSleep(w) ==
    /\ wk[w].pc = "sleeping"
    /\ processing_state' = [processing_state EXCEPT ![wk[w].row].status = "pending"]
    /\ wk' = [wk EXCEPT ![w].pc = "gate", ![w].attempt_num = 0, ![w].wake = 0]
    /\ UNCHANGED <<events, audit_log, now, req, overlap>>

\* line 152: asyncio.sleep(backoff_delay) returns once the delay has passed
Wake(w) ==
    /\ now >= wk[w].wake
    /\ EndSleep(w)

\* a second passes; the clock is observed only through the backoff sleeps
Tick ==
    /\ \E w \in Workers : wk[w].pc = "sleeping" /\ now < wk[w].wake
    /\ now' = now + 1
    /\ UNCHANGED <<events, processing_state, audit_log, req, wk, overlap>>

\* the store after one accepted webhook: what receive_webhook leaves behind
AcceptedPayload == 1

InitAccepted(e, p) ==
    /\ events = << [event_id |-> e, payload |-> p,
                    payload_hash |-> compute_payload_hash(p)] >>
    /\ processing_state = << NewProcessingState(e) >>
    /\ audit_log = SetToBag({ [event_id |-> e, action |-> "event_received",
                                success |-> "pending", n |-> 0, timestamp |-> 0],
                               [event_id |-> e, action |-> "event_inserted",
                                success |-> "success", n |-> 0, timestamp |-> 0] })
    /\ now = 0
    /\ req = [r \in Requests |->
                IF r = 1
                THEN [pc |-> "done", event_id |-> e, payload |-> p,
                      payload_hash |-> compute_payload_hash(p),
                      existing |-> NULL, response |-> "accepted"]
                ELSE IdleReq]
    /\ wk = [w \in Workers |-> IdleWorker]
    /\ overlap = {}

Init == InitAccepted("e1", AcceptedPayload)

Next ==
    \/ \E w \in Workers : Poll(w)
    \/ \E w \in Workers : GateNone(w)
    \/ \E w \in Workers : GateAbandon(w)
    \/ \E w \in Workers : GateClaim(w)
    \/ \E w \in Workers : AuditAbandoned(w)
    \/ \E w \in Workers : StartAttempt(w)
    \/ \E w \in Workers : DeliverOk(w)
    \/ \E w \in Workers : DeliverFail(w)
    \/ \E w \in Workers : AuditSucceeded(w)
    \/ \E w \in Workers : AuditFailedRetry(w)
    \/ \E w \in Workers : AuditFailedPermanently(w)
    \/ \E w \in Workers : Wake(w)
    \/ Tick

Spec == Init /\ [][Next]_vars

\* The worker with the clock left out: a sleep ends at any step and `now`
\* stays 0.  Every behaviour of Spec, its clock hidden, is one of these.
NextUntimed ==
    \/ \E w \in Workers : Poll(w)
    \/ \E w \in Workers : GateNone(w)
    \/ \E w \in Workers : GateAbandon(w)
    \/ \E w \in Workers : GateClaim(w)
    \/ \E w \in Workers : AuditAbandoned(w)
    \/ \E w \in Workers : StartAttempt(w)
    \/ \E w \in Workers : DeliverOk(w)
    \/ \E w \in Workers : DeliverFail(w)
    \/ \E w \in Workers : AuditSucceeded(w)
    \/ \E w \in Workers : AuditFailedRetry(w)
    \/ \E w \in Workers : AuditFailedPermanently(w)
    \/ \E w \in Workers : EndSleep(w)

SpecUntimed == Init /\ [][NextUntimed]_vars

\* worker_loop never stops polling and a started process_event call runs on:
\* no worker that can take a step waits for ever
WorkerUntimed(w) ==
    \/ Poll(w)
    \/ GateNone(w)
    \/ GateAbandon(w)
    \/ GateClaim(w)
    \/ AuditAbandoned(w)
    \/ StartAttempt(w)
    \/ DeliverOk(w)
    \/ DeliverFail(w)
    \/ AuditSucceeded(w)
    \/ AuditFailedRetry(w)
    \/ AuditFailedPermanently(w)
    \/ EndSleep(w)

Fairness == \A w \in Workers : WF_vars(WorkerUntimed(w))

SpecUntimedFair == Init /\ [][NextUntimed]_vars /\ Fairness

\* ------------------------------------------------------- stops and restarts
\* a worker process that is not running
StoppedWorker == [IdleWorker EXCEPT !.pc = "stopped"]

\* the worker process dies inside process_event: what it had committed stays,
\* nothing else is written
Crash(w) ==
    /\ wk[w].pc \notin {"idle", "stopped", "sleeping"}
    /\ wk' = [wk EXCEPT ![w] = StoppedWorker]
    /\ UNCHANGED <<events, processing_state, audit_log, now, req, overlap>>

\* line 152: the worker is shut down during the backoff sleep; the
\* CancelledError of asyncio.sleep is not an Exception, so it passes the
\* handler of lines 166-171 and only db.close() runs
CancelSleep(w) ==
    /\ wk[w].pc = "sleeping"
    /\ wk' = [wk EXCEPT ![w] = StoppedWorker]
    /\ UNCHANGED <<events, processing_state, audit_log, now, req, overlap>>

\* lines 166-173: an exception between the commit of line 113 and the commit
\* of the outcome is logged and audited, and process_event returns
ProcessingError(w) ==
    /\ wk[w].pc \in {"claimed", "call"}
    /\ create_audit_log(wk[w].event_id, "processing_error", "failure", 0)
    /\ wk' = [wk EXCEPT ![w] = IdleWorker]
    /\ UNCHANGED <<events, processing_state, now, req, overlap>>

\* lines 176-182, 208-210: the worker process is started again and polls
Restart(w) ==
    /\ wk[w].pc = "stopped"
    /\ wk' = [wk EXCEPT ![w] = IdleWorker]
    /\ UNCHANGED <<events, processing_state, audit_log, now, req, overlap>>

NextCrash ==
    \/ \E w \in Workers : Poll(w)
    \/ \E w \in Workers : GateNone(w)
    \/ \E w \in Workers : GateAbandon(w)
    \/ \E w \in Workers : GateClaim(w)
    \/ \E w \in Workers : AuditAbandoned(w)
    \/ \E w \in Workers : StartAttempt(w)
    \/ \E w \in Workers : DeliverOk(w)
    \/ \E w \in Workers : DeliverFail(w)
    \/ \E w \in Workers : AuditSucceeded(w)
    \/ \E w \in Workers : AuditFailedRetry(w)
    \/ \E w \in Workers : AuditFailedPermanently(w)
    \/ \E w \in Workers : EndSleep(w)
    \/ \E w \in Workers : Crash(w)
    \/ \E w \in Workers : CancelSleep(w)
    \/ \E w \in Workers : ProcessingError(w)
    \/ \E w \in Workers : Restart(w)

\* a running worker goes on and a stopped one is started again; stops and
\* exceptions may or may not happen
FairnessCrash == \A w \in Workers : WF_vars(WorkerUntimed(w) \/ Restart(w))

SpecCrash == Init /\ [][NextCrash]_vars /\ FairnessCrash

\* the default deployment, one worker process: worker 1 alone takes steps,
\* over any one accepted webhook.  The row a lone worker polled is still
\* 'pending' at the gate with attempts left, so the returns of lines 95-107
\* (GateNone, GateAbandon, AuditAbandoned) take a second process and are
\* steps of Spec only
InitOneWorker == \E e \in EventIds, p \in Payloads : InitAccepted(e, p)

NextOneWorker ==
    \/ Poll(1)
    \/ GateClaim(1)
    \/ StartAttempt(1)
    \/ DeliverOk(1)
    \/ DeliverFail(1)
    \/ AuditSucceeded(1)
    \/ AuditFailedRetry(1)
    \/ AuditFailedPermanently(1)
    \/ Wake(1)
    \/ Tick

SpecOneWorker == InitOneWorker /\ [][NextOneWorker]_vars

\* ================================================================ claims
StartedReqs(e) == { r \in Requests : req[r].pc # "idle" /\ req[r].event_id = e }

DoneReqs(e) == { r \in StartedReqs(e) : req[r].pc = "done" }

SamePayload(e) ==
    \A r, q \in StartedReqs(e) : req[r].payload = req[q].payload

FirstReq(e) == CHOOSE r \in StartedReqs(e) : \A q \in StartedReqs(e) : r <= q

\* C1: the same webhook (one event_id, one payload) ingested N times one after
\* another leaves one Event row and one ProcessingState row; the first answer
\* is 'accepted', the others are 'deduplicated', each with an 'event_deduped'
\* audit row
C1_Idempotence ==
    \A e \in EventIds :
        (e \notin overlap /\ SamePayload(e) /\ DoneReqs(e) # {}) =>
            /\ CountRows(events, e) = 1
            /\ CountRows(processing_state, e) = 1
            /\ \A r \in DoneReqs(e) :
                req[r].response =
                    IF r = FirstReq(e) THEN "accepted" ELSE "deduplicated"
            /\ CountAudit(e, "event_deduped") = Cardinality(DoneReqs(e)) - 1

\* the same webhook has been ingested NumRequests times, one after another
C1_Witness ==
    \E e \in EventIds :
        /\ e \notin overlap
        /\ SamePayload(e)
        /\ Cardinality(DoneReqs(e)) = NumRequests
        /\ CountAudit(e, "event_deduped") = NumRequests - 1

\* the ingests that found the event stored under another hash
FoundOtherHash(r) ==
    /\ req[r].pc = "done"
    /\ req[r].existing # NULL
    /\ req[r].existing[1].payload_hash # req[r].payload_hash

\* C2: an ingest of an event_id that is stored with another payload hash
\* answers 'conflict', writes a 'conflict_detected' audit row, creates no row
\* and leaves the stored Event (payload, payload_hash) and the
\* ProcessingState row as they were
C2_ConflictDetection ==
    \A r \in Requests :
        FoundOtherHash(r) =>
            LET e == req[r].event_id
                id == req[r].existing[1].id
            IN /\ req[r].response = "conflict"
               /\ CountAudit(e, "conflict_detected") >= 1
               /\ CountRows(events, e) = 1
               /\ CountRows(processing_state, e) = 1
               /\ events[id].event_id = e
               /\ events[id].payload = req[r].existing[1].payload
               /\ events[id].payload_hash = req[r].existing[1].payload_hash
               /\ \A i \in RowsOf(processing_state, e) :
                    /\ processing_state[i].status = "pending"
                    /\ processing_state[i].attempt_count = 0

\* an ingest has met a stored Event with another hash and has answered
C2_Witness ==
    \E r \in Requests :
        /\ FoundOtherHash(r)
        /\ CountAudit(req[r].event_id, "conflict_detected") >= 1

AcceptedReqs(e) == { r \in DoneReqs(e) : req[r].response = "accepted" }

\* C3: of the ingests of one event_id, however their steps interleave, one and
\* only one answers 'accepted', and one Event row and one ProcessingState row
\* exist for the event_id afterwards
C3_OneWinner ==
    \A e \in EventIds :
        /\ Cardinality(AcceptedReqs(e)) <= 1
        /\ CountRows(events, e) <= 1
        /\ CountRows(processing_state, e) <= 1
        /\ (StartedReqs(e) # {} /\ DoneReqs(e) = StartedReqs(e)) =>
            /\ Cardinality(AcceptedReqs(e)) = 1
            /\ CountRows(events, e) = 1
            /\ CountRows(processing_state, e) = 1

\* the ingests that passed the existence check and lost the insert
RaceLosers(e) ==
    { r \in DoneReqs(e) : req[r].existing = NULL /\ req[r].response # "accepted" }

\* all the ingests of an event_id have answered and one of them lost the race
C3_Witness ==
    \E e \in EventIds :
        /\ e \in overlap
        /\ DoneReqs(e) = StartedReqs(e)
        /\ RaceLosers(e) # {}

StoredHash(e) == events[CHOOSE i \in RowsOf(events, e) : TRUE].payload_hash

\* C4: an ingest that loses the insert race is answered by comparing its hash
\* with the stored one: 'conflict' (with a 'conflict_detected' audit row) when
\* they differ, 'deduplicated' only when they are equal
C4_RaceThreeWay ==
    \A e \in EventIds : \A r \in RaceLosers(e) :
        /\ (req[r].payload_hash # StoredHash(e)) =>
                /\ req[r].response = "conflict"
                /\ CountAudit(e, "conflict_detected") >= 1
        /\ (req[r].response = "deduplicated") =>
                req[r].payload_hash = StoredHash(e)

\* a worker with a delivery in flight: its 'processing_attempt_started' row is
\* committed, the outcome of the attempt is not
InFlight(w) == wk[w].pc = "call"

\* C5: no two workers have a delivery in flight for one event_id at once
C5_MutualExclusion ==
    \A w1, w2 \in Workers :
        (w1 # w2 /\ InFlight(w1) /\ InFlight(w2)) =>
            wk[w1].event_id # wk[w2].event_id

CountStarted(e, n) ==
    SumCopies({ a \in AuditOf(e, "processing_attempt_started") : a.n = n })

\* the workers that have committed an attempt and not yet audited its start
StartPending(e) == { w \in Workers : wk[w].pc = "claimed" /\ wk[w].event_id = e }

\* C6: no two 'processing_attempt_started' rows of an event carry the same
\* attempt number, and every attempt the row counts has exactly one (once the
\* worker that took it has written it)
C6_UniqueAttemptNumbers ==
    \A e \in EventIds :
        /\ \A n \in 1..max_retry_attempts : CountStarted(e, n) <= 1
        /\ StartPending(e) = {} =>
            \A i \in RowsOf(processing_state, e) :
                \A n \in 1..processing_state[i].attempt_count :
                    CountStarted(e, n) = 1

\* C7: attempt_count of every row is between 0 and max_retry_attempts
C7_AttemptBound ==
    \A i \in 1..Len(processing_state) :
        /\ processing_state[i].attempt_count >= 0
        /\ processing_state[i].attempt_count <= max_retry_attempts

\* the quota is used up and a further call of process_event has been refused
C7_Witness ==
    \E i \in 1..Len(processing_state) : \E w \in Workers :
        /\ processing_state[i].attempt_count = max_retry_attempts
        /\ wk[w].pc = "abandoned"
        /\ wk[w].row = i

\* C8: attempt_count never decreases, and a status of 'completed' or 'failed'
\* never changes again
C8_Monotonicity ==
    [][ /\ Len(processing_state') >= Len(processing_state)
        /\ \A i \in 1..Len(processing_state) :
            /\ processing_state'[i].attempt_count >= processing_state[i].attempt_count
            /\ processing_state[i].status \in {"completed", "failed"} =>
                processing_state'[i].status = processing_state[i].status ]_vars

\* the successful deliveries of an event: those audited and those whose
\* 'processing_succeeded' row is about to be written
Deliveries(e) ==
    CountAudit(e, "processing_succeeded")
    + Cardinality({ w \in Workers : wk[w].pc = "succeeded" /\ wk[w].event_id = e })

\* C9: an event is delivered successfully at most once: at most one
\* 'processing_succeeded' audit row per event_id
C9_AtMostOneDelivery ==
    \A e \in EventIds : Deliveries(e) <= 1

\* C10: a 'processing_attempt_started' row numbered n+1 is never earlier than
\* calculate_backoff_delay(n) after a 'processing_attempt_failed' row numbered
\* n of the same event, for 1 <= n < max_retry_attempts
C10_BackoffLaw ==
    \A e \in EventIds :
        \A f \in AuditOf(e, "processing_attempt_failed") :
            \A a \in AuditOf(e, "processing_attempt_started") :
                (f.n >= 1 /\ f.n < max_retry_attempts /\ a.n = f.n + 1) =>
                    a.timestamp >= f.timestamp + calculate_backoff_delay(f.n)

\* no process_event call is under way: every worker is back in its poll loop
Quiescent == \A w \in Workers : wk[w].pc = "idle"

\* 'failed' as a terminal state: the attempts are used up and nothing is running
TerminalFailed(i) ==
    /\ processing_state[i].status = "failed"
    /\ processing_state[i].attempt_count >= max_retry_attempts
    /\ Quiescent

\* C11: whenever an event rests in 'failed' as its terminal state, the audit
\* log holds exactly max_retry_attempts 'processing_attempt_failed' rows for it
C11_FailedAfterFullQuota ==
    \A i \in 1..Len(processing_state) :
        TerminalFailed(i) =>
            CountAudit(processing_state[i].event_id, "processing_attempt_failed")
                = max_retry_attempts

CountAuditN(e, action, n) == SumCopies({ a \in AuditOf(e, action) : a.n = n })

\* C12: with one worker, an event whose first k deliveries fail and whose
\* delivery k+1 succeeds ends 'completed' with attempt_count = k+1 and exactly
\* k+1 'processing_attempt_started', k 'processing_attempt_failed',
\* k 'retry_scheduled' and 1 'processing_succeeded' audit rows
C12_RetryToSuccess ==
    \A i \in 1..Len(processing_state) :
        LET e == processing_state[i].event_id
            k == CountAudit(e, "processing_attempt_failed")
        IN  (Quiescent /\ CountAudit(e, "processing_succeeded") >= 1) =>
                /\ k < max_retry_attempts
                /\ processing_state[i].status = "completed"
                /\ processing_state[i].attempt_count = k + 1
                /\ CountAudit(e, "processing_attempt_started") = k + 1
                /\ CountAudit(e, "retry_scheduled") = k
                /\ CountAudit(e, "processing_succeeded") = 1
                /\ CountAuditN(e, "processing_succeeded", k + 1) = 1
                /\ \A n \in 1..k : CountAuditN(e, "processing_attempt_failed", n) = 1

\* the spec's case: two failures, success on the third attempt
C12_Witness ==
    \E i \in 1..Len(processing_state) :
        /\ Quiescent
        /\ processing_state[i].status = "completed"
        /\ processing_state[i].attempt_count = 3
        /\ CountAudit(processing_state[i].event_id, "processing_attempt_failed") = 2
        /\ CountAudit(processing_state[i].event_id, "processing_succeeded") = 1

\* the downstream has failed every delivery of e so far
AlwaysFailed(e) == Deliveries(e) = 0

PermanentFailures(e) == CountAudit(e, "processing_failed_permanently")

\* the work on e is over: no process_event call is running and no poll finds it
Settled(i) == Quiescent /\ processing_state[i].status # "pending"

\* C13: while the downstream fails every delivery, the event comes to rest in
\* 'failed' with attempt_count = max_retry_attempts and exactly one
\* 'processing_failed_permanently' audit row, and once that row is written no
\* further attempt is started
C13_TerminalFailure ==
    /\ [](\A i \in 1..Len(processing_state) :
            LET e == processing_state[i].event_id IN
            AlwaysFailed(e) =>
                /\ PermanentFailures(e) <= 1
                /\ Settled(i) =>
                    /\ processing_state[i].status = "failed"
                    /\ processing_state[i].attempt_count = max_retry_attempts
                    /\ PermanentFailures(e) = 1)
    /\ [][\A i \in 1..Len(processing_state) :
            LET e == processing_state[i].event_id IN
            (AlwaysFailed(e) /\ PermanentFailures(e) >= 1) =>
                /\ processing_state'[i].attempt_count = processing_state[i].attempt_count
                /\ processing_state'[i].status # "processing"]_vars

\* a terminal status: 'completed', or 'failed' with the attempts used up
Terminal(i) ==
    \/ processing_state[i].status = "completed"
    \/ /\ processing_state[i].status = "failed"
       /\ processing_state[i].attempt_count = max_retry_attempts

\* C14: when no worker stops and every worker that can step does, every
\* accepted event reaches 'completed' or 'failed' with attempt_count =
\* max_retry_attempts, whatever the downstream answers
C14_Progress == <>(\A i \in 1..Len(processing_state) : Terminal(i))

\* the attempts ran out after retries and the work on the event is over
C14_Witness ==
    \E i \in 1..Len(processing_state) :
        /\ Settled(i)
        /\ Terminal(i)
        /\ processing_state[i].status = "failed"
        /\ CountAudit(processing_state[i].event_id, "retry_scheduled") >= 1

\* C15: in every row, completed_at is set exactly when status is 'completed'
C15_CompletedAtConsistency ==
    \A i \in 1..Len(processing_state) :
        (processing_state[i].completed_at # NULL)
            <=> (processing_state[i].status = "completed")

\* C16: no committed status change is without its audit row: every counted
\* attempt (pending -> processing) has a 'processing_attempt_started' row, a
\* 'completed' row has a 'processing_succeeded' row, a 'failed' row has a
\* 'processing_attempt_failed' or 'processing_abandoned' row
C16_AuditBeforeState ==
    \A i \in 1..Len(processing_state) :
        LET e == processing_state[i].event_id IN
        /\ CountAudit(e, "processing_attempt_started")
                >= processing_state[i].attempt_count
        /\ processing_state[i].status = "completed" =>
                CountAudit(e, "processing_succeeded") >= 1
        /\ processing_state[i].status = "failed" =>
                CountAudit(e, "processing_attempt_failed")
                    + CountAudit(e, "processing_abandoned") >= 1

\* two payloads with the same keys and the same values, at every level
\* (the order of the keys plays no part)
Keys(items) == { items[j][1] : j \in 1..Len(items) }

ValueAt(items, k) == items[CHOOSE j \in 1..Len(items) : items[j][1] = k][2]

RECURSIVE SameContent(_, _)
SameContent(p, q) ==
    /\ Len(p) = Len(q)
    /\ Keys(p) = Keys(q)
    /\ \A k \in Keys(p) :
        LET v == ValueAt(p, k)
            u == ValueAt(q, k)
        IN  /\ v.kind = u.kind
            /\ IF v.kind = "dict" THEN SameContent(v.items, u.items)
               ELSE v.num = u.num

\* the hash is the same for payloads of the same content
HashIgnoresKeyOrder ==
    \A p, q \in Payloads :
        SameContent(PayloadTable[p], PayloadTable[q]) =>
            compute_payload_hash(p) = compute_payload_hash(q)

\* C17: payloads that differ only in the order of their keys, at any level,
\* have the same hash, and an ingest that finds the event stored with such a
\* payload is answered 'deduplicated', not 'conflict'
C17_Canonicalization ==
    /\ HashIgnoresKeyOrder
    /\ \A e \in EventIds : \A r \in DoneReqs(e) :
        (/\ req[r].existing # NULL
         /\ SameContent(PayloadTable[req[r].existing[1].payload],
                        PayloadTable[req[r].payload])) =>
            /\ req[r].existing[1].payload_hash = req[r].payload_hash
            /\ req[r].response = "deduplicated"

\* an ingest of the stored event with its keys reordered has been answered
C17_Witness ==
    \E e \in EventIds : \E r \in DoneReqs(e) :
        /\ req[r].existing # NULL
        /\ req[r].existing[1].payload # req[r].payload
        /\ SameContent(PayloadTable[req[r].existing[1].payload],
                       PayloadTable[req[r].payload])
        /\ req[r].response = "deduplicated"

\* C18: an Event row for e exists exactly when one ProcessingState row for e
\* exists; there is never a second one, and until a worker takes it the row
\* is as created with the Event: 'pending' with attempt_count 0
C18_OneStatePerEvent ==
    \A e \in EventIds :
        /\ (CountRows(events, e) >= 1) <=> (CountRows(processing_state, e) = 1)
        /\ CountRows(processing_state, e) <= 1
        /\ \A i \in RowsOf(processing_state, e) :
            /\ processing_state[i].status = "pending"
            /\ processing_state[i].attempt_count = 0

\* an event is stored with its one row and a second insert for it has just
\* been refused by the unique index
C18_Witness ==
    \E e \in EventIds : \E r \in Requests :
        /\ req[r].pc = "integrity_error"
        /\ req[r].event_id = e
        /\ CountRows(events, e) = 1
        /\ CountRows(processing_state, e) = 1

\* a row of e is in 'processing' and no worker is between the commit that put
\* it there and the commit of an outcome
StuckProcessing(e) ==
    \E i \in RowsOf(processing_state, e) :
        /\ processing_state[i].status = "processing"
        /\ \A w \in Workers : ~(wk[w].pc \in {"claimed", "call"} /\ wk[w].row = i)

PendingAgain(e) ==
    \E i \in RowsOf(processing_state, e) : processing_state[i].status = "pending"

\* C19: a row left in 'processing' by a worker that crashed or raised an
\* exception is in the end reset to 'pending', and attempt_count is never
\* decremented
C19_StuckRowRecovered ==
    /\ \A e \in EventIds : StuckProcessing(e) ~> PendingAgain(e)
    /\ [][\A i \in 1..Len(processing_state) :
            processing_state'[i].attempt_count
                >= processing_state[i].attempt_count]_vars

\* C20: a worker shut down during its backoff sleep leaves the row it was
\* retrying in 'pending'
C20_CancelledBackoff ==
    [][\A w \in Workers :
        (wk[w].pc = "sleeping" /\ wk'[w].pc = "stopped") =>
            processing_state'[wk[w].row].status = "pending"]_vars

\* C21: a row is 'failed' only when its attempts are used up: after a failed
\* attempt n < max_retry_attempts the row is committed as 'pending', not 'failed'
C21_FailedMeansExhausted ==
    \A i \in 1..Len(processing_state) :
        processing_state[i].status = "failed" =>
            processing_state[i].attempt_count >= max_retry_attempts

\* event e has no row, or its row is 'processing' or 'completed'
Ineligible(e) ==
    \A i \in RowsOf(processing_state, e) :
        processing_state[i].status \in {"processing", "completed"}

\* C22: process_event entered for an event whose row is 'processing' or
\* 'completed' (or missing) returns with no ProcessingState field changed, no
\* audit row written and no downstream call; a row is moved to 'processing'
\* only from 'pending' or 'failed'
C22_GateNoOp ==
    [][ /\ \A w \in Workers :
            (/\ wk[w].pc = "gate"
             /\ wk'[w] # wk[w]
             /\ Ineligible(wk[w].event_id)) =>
                /\ processing_state' = processing_state
                /\ audit_log' = audit_log
                /\ wk'[w].pc = "idle"
        /\ \A i \in 1..Len(processing_state) :
            (/\ processing_state'[i].status = "processing"
             /\ processing_state'[i] # processing_state[i]) =>
                processing_state[i].status \in {"pending", "failed"} ]_vars

\* process_event has been entered for an event whose row another worker
\* holds or has completed
C22_Witness ==
    \E w \in Workers :
        /\ wk[w].pc = "gate"
        /\ RowsOf(processing_state, wk[w].event_id) # {}
        /\ Ineligible(wk[w].event_id)

\* the 'event_received' rows of e written on arrival (success 'pending')
ReceivedRows(e) ==
    SumCopies({ a \in AuditOf(e, "event_received") : a.success = "pending" })

Answered(e, response) == { r \in DoneReqs(e) : req[r].response = response }

\* C23: every ingest has its 'event_received' row (success 'pending') from
\* before its lookup on, every answered ingest has exactly one decision row
\* matching its answer ('event_inserted', 'event_deduped',
\* 'conflict_detected'), and an ingest that fails with a store error keeps its
\* 'event_received' row and leaves no Event or ProcessingState row
C23_IngestAuditTrail ==
    \A e \in EventIds :
        /\ ReceivedRows(e) = Cardinality(StartedReqs(e))
        /\ CountAudit(e, "event_inserted") = Cardinality(Answered(e, "accepted"))
        /\ CountAudit(e, "event_deduped") = Cardinality(Answered(e, "deduplicated"))
        /\ CountAudit(e, "conflict_detected") = Cardinality(Answered(e, "conflict"))
        /\ (CountRows(events, e) + CountRows(processing_state, e) >= 1) =>
            \E r \in StartedReqs(e) :
                req[r].pc = "inserted" \/ req[r].response = "accepted"

\* min(initial_retry_delay * 2^(n-1), max_retry_delay), written out
BackoffOf(n) ==
    IF initial_retry_delay * 2^(n - 1) <= max_retry_delay
    THEN initial_retry_delay * 2^(n - 1)
    ELSE max_retry_delay

DefaultDelays == <<1, 2, 4, 8, 16>>

BackoffFunctionLaw ==
    \A n \in 1..MaxAttemptArg :
        /\ calculate_backoff_delay(n) = BackoffOf(n)
        /\ calculate_backoff_delay(n) <= max_retry_delay
        /\ n > 1 => calculate_backoff_delay(n) >= calculate_backoff_delay(n - 1)
        /\ n <= Len(DefaultDelays) => calculate_backoff_delay(n) = DefaultDelays[n]

\* C24: calculate_backoff_delay(n) = min(initial_retry_delay * 2^(n-1),
\* max_retry_delay) for every n >= 1: 1, 2, 4, 8, 16 for n = 1..5 with the
\* defaults, non-decreasing, never above max_retry_delay; and the sleep a
\* worker takes after failed attempt n is that long
C24_BackoffFunction ==
    /\ BackoffFunctionLaw
    /\ \A w \in Workers :
        wk[w].pc = "sleeping" =>
            \E a \in AuditOf(wk[w].event_id, "retry_scheduled") :
                /\ a.n = wk[w].attempt_num + 1
                /\ wk[w].wake = a.timestamp + BackoffOf(wk[w].attempt_num)

\* the longest sleep of a run, after the last attempt but one, has run out
C24_Witness ==
    \E w \in Workers :
        /\ wk[w].pc = "sleeping"
        /\ wk[w].attempt_num = max_retry_attempts - 1
        /\ now = wk[w].wake

\* the row of worker w holds the given status and w's own attempt number
RowAsLeft(w, status) ==
    /\ processing_state[wk[w].row].status = status
    /\ processing_state[wk[w].row].attempt_count = wk[w].attempt_num

\* C25: a worker that commits the outcome of its attempt n finds the row
\* 'processing' with attempt_count = n, and a worker that resets the row to
\* 'pending' after its backoff sleep finds it 'failed' with attempt_count = n:
\* no worker overwrites what another worker's later attempt wrote
C25_OwnerWrites ==
    [][\A w \in Workers :
        /\ (wk[w].pc = "call" /\ wk'[w].pc \in {"succeeded", "failed"}) =>
                RowAsLeft(w, "processing")
        /\ (wk[w].pc = "sleeping" /\ wk'[w].pc = "gate") =>
                RowAsLeft(w, "failed")]_vars
====
